---- MODULE Spec2Model ----
(***************************************************************************)
(* Gap propagation utilities of gaps_tdi:                                  *)
(*   utility_funcs/gap_widening_utils.py  (closed-form widening law and    *)
(*                                         its cascades)                   *)
(*   utility_funcs/multi_gap_utils.py     (interval merging, NaN block     *)
(*                                         extraction, mask propagation)   *)
(* The functions are pure apart from list.sort() in merge_intervals and    *)
(* the exception raised by np.concatenate on an empty list.  A caller      *)
(* holds the arguments, calls each function at most once and keeps what    *)
(* it returned.                                                            *)
(***************************************************************************)
EXTENDS Integers, Sequences, FiniteSets, TLC

VARIABLES
    intervals,       \* the caller's list handed to merge_intervals
    object_w_nans,   \* the caller's array (index 0..N-1) of 1.0 / NaN
    delay,           \* delay in samples, as a numerator over DelayDen
    order,           \* lagrange order
    N_nans,          \* gap size handed to the widening law
    delay_number,    \* delay multiplier handed to the widening law
    returned         \* function name |-> what the call returned

vars == <<intervals, object_w_nans, delay, order, N_nans,
          delay_number, returned>>

----------------------------------------------------------------------------
(* Bounds of the explored inputs *)

MaxLen == 6          \* longest mask
MaxDelay == 3        \* largest delay, in samples
MaxOrder == 5        \* largest lagrange order
MaxNans == 4         \* largest gap size handed to the widening law
MaxIntervals == 3    \* longest interval list
MaxCoord == 4        \* interval bounds range over -1 .. MaxCoord - 1
DelayDen == 3        \* delays are multiples of 1/DelayDen samples

NaN == "nan"
One == "1.0"

----------------------------------------------------------------------------
(* numpy / python primitives *)

Max(a, b) == IF a >= b THEN a ELSE b

\* int(x) of a real x = num/den (den > 0): truncation toward zero
int(num, den) == IF num >= 0 THEN num \div den ELSE -((-num) \div den)

\* np.floor(delay_number * delay), delay = dq/DelayDen
floor_delay(k, dq) == (k * dq) \div DelayDen

len(a) == Cardinality(DOMAIN a)

np_ones_like(a) == [i \in DOMAIN a |-> One]

\* ascending sequence of the members of a finite set of integers
RECURSIVE ascending(_)
ascending(S) ==
    IF S = {} THEN <<>>
    ELSE LET m == CHOOSE x \in S : \A y \in S : x <= y
         IN <<m>> \o ascending(S \ {m})

\* np.argwhere(np.isnan(a)).flatten()
nan_indices_of(a) == ascending({i \in DOMAIN a : a[i] = NaN})

----------------------------------------------------------------------------
(* merge_intervals *)

\* list.sort(key=lambda x: x[0]) is stable: an element goes after every
\* earlier element whose start is <= its own
RECURSIVE list_sort(_)
list_sort(s) ==
    IF s = <<>> THEN <<>>
    ELSE LET n == Len(s)
             front == list_sort(SubSeq(s, 1, n - 1))
             x == s[n]
             k == Cardinality({i \in 1..(n - 1) : front[i][1] <= x[1]})
         IN SubSeq(front, 1, k) \o <<x>> \o SubSeq(front, k + 1, n - 1)

touches_only_overlapping(current, prev) == current[1] <= prev[2]

\* current[0] <= prev[1] + 1
touches(current, prev) == current[1] <= prev[2] + 1

RECURSIVE merge_scan(_, _, _)
merge_scan(sorted, i, merged) ==
    IF i > Len(sorted) THEN merged
    ELSE LET current == sorted[i]
             prev == merged[Len(merged)]
         IN IF touches(current, prev)
            THEN merge_scan(sorted, i + 1,
                     [merged EXCEPT ![Len(merged)] =
                          <<prev[1], Max(prev[2], current[2])>>])
            ELSE merge_scan(sorted, i + 1, Append(merged, current))

\* the list object after the call, and the returned list
merge_intervals(ivs) ==
    IF ivs = <<>> THEN [intervals |-> ivs, ret |-> <<>>]
    ELSE LET sorted == list_sort(ivs)
         IN [intervals |-> sorted,
             ret |-> merge_scan(sorted, 2, <<sorted[1]>>)]

----------------------------------------------------------------------------
(* nans_blocks_function *)

\* np.split(nan_indices, np.where(np.diff(nan_indices) > 1)[0] + 1):
\* a new block starts wherever consecutive NaN indices differ by more than 1
RECURSIVE np_split(_, _, _)
np_split(idx, i, acc) ==
    IF i > Len(idx) THEN acc
    ELSE IF idx[i] - idx[i - 1] > 1
         THEN np_split(idx, i + 1, Append(acc, <<idx[i]>>))
         ELSE np_split(idx, i + 1,
                  [acc EXCEPT ![Len(acc)] = Append(@, idx[i])])

\* the list of blocks; no NaN gives an empty array, which iterates as nothing
nans_blocks_function(a) ==
    LET nan_indices == nan_indices_of(a)
    IN IF Len(nan_indices) = 0 THEN <<>>
       ELSE np_split(nan_indices, 2, << <<nan_indices[1]>> >>)

----------------------------------------------------------------------------
(* compute_nan_indices_delay *)

\* p = int((order + 1) / 2)
half_support(L) == int(L + 1, 2)

delay_start(n_object_first, d, p) == n_object_first + d - p + 1

delay_end_exclusive(n_object_last, d, p) == n_object_last + d + p - 1

\* n_object_last + delay - (1 - p) + 1
delay_end(n_object_last, d, p) == n_object_last + d - (1 - p) + 1

RECURSIVE affected_intervals_of(_, _, _)
affected_intervals_of(nan_blocks, d, p) ==
    IF nan_blocks = <<>> THEN <<>>
    ELSE LET block == Head(nan_blocks)
             n_object_first == block[1]
             n_object_last == block[Len(block)]
         IN << <<n_object_first, n_object_last>>,
               <<delay_start(n_object_first, d, p),
                 delay_end(n_object_last, d, p)>> >>
            \o affected_intervals_of(Tail(nan_blocks), d, p)

\* np.concatenate([np.arange(start, end + 1) ...]) followed by np.unique:
\* the members, without order or repetition
arange_union(merged) ==
    UNION {merged[i][1]..merged[i][2] : i \in 1..Len(merged)}

in_series_upper_only(i, N) == i < N

\* (affected_indices >= 0) & (affected_indices < N_original_series)
in_series(i, N) == i >= 0 /\ i < N

\* numpy's arr[indices] = value: a negative index -N <= i < 0 addresses
\* i + N; anything else outside 0..N-1 raises IndexError
ndarray_setitem(arr, indices, value) ==
    LET N == len(arr)
    IN IF \E i \in indices : i >= N \/ i < -N
       THEN [exc |-> "IndexError", arr |-> arr]
       ELSE [exc |-> "none",
             arr |-> [j \in DOMAIN arr |->
                        IF j \in indices \/ (j - N) \in indices
                        THEN value ELSE arr[j]]]

\* exc: the exception the call ends with ("none": it returns ret);
\* object_w_nans: the caller's array after the call
compute_nan_indices_delay(a, d, L) ==
    LET N_original_series == len(a)
        p == half_support(L)
        merged == merge_intervals(
                      affected_intervals_of(nans_blocks_function(a), d, p)).ret
        affected == {i \in arange_union(merged) : in_series(i, N_original_series)}
        painted == ndarray_setitem(np_ones_like(a), affected, NaN)
    IN IF merged = <<>>
       THEN \* np.concatenate([]) raises ValueError
            [exc |-> "ValueError", ret |-> <<>>, object_w_nans |-> a]
       ELSE [exc |-> painted.exc, ret |-> painted.arr, object_w_nans |-> a]

\* mask_eta: delay=int(np.floor(delay))
mask_eta(mask_telemetry, dq, L) ==
    compute_nan_indices_delay(mask_telemetry, floor_delay(1, dq), L)

\* one further stage of mask_TDI_X; an exception of an earlier stage propagates
next_stage(prev, d, L) ==
    IF prev.exc # "none" THEN prev
    ELSE LET r == compute_nan_indices_delay(prev.ret, d, L)
         IN [exc |-> r.exc, ret |-> r.ret, object_w_nans |-> prev.object_w_nans]

mask_TDI_X(mask_telemetry, dq, L, generation) ==
    LET eta == compute_nan_indices_delay(mask_telemetry, floor_delay(1, dq), L)
        a12 == next_stage(eta, floor_delay(1, dq), L)
        r12 == next_stage(a12, floor_delay(2, dq), L)
    IN IF generation = 1 THEN r12
       ELSE next_stage(r12, floor_delay(4, dq), L)

----------------------------------------------------------------------------
(* gap_augmentation_expression and its cascades *)

\* the three values of extra_widening, as numerators over 2 (the second
\* is (lagrange_order + 1) / 2 + D, a true division)
extra_absorbed_without_gap(lagrange_order, n) == 2 * lagrange_order

extra_absorbed(lagrange_order, n) == 2 * (lagrange_order + n)

extra_delayed_off_by_one(lagrange_order, D) == lagrange_order - 1 + 2 * D

extra_delayed(lagrange_order, D) == lagrange_order + 1 + 2 * D

extra_window(lagrange_order) == 2 * lagrange_order

first_regime_without_lower_limit(lagrange_order, B_1) == lagrange_order <= B_1

\* 1 < lagrange_order <= B_1
first_regime(lagrange_order, B_1) == 1 < lagrange_order /\ lagrange_order <= B_1

\* <<int(extra_widening), int(N_nans + extra_widening)>>
gap_augmentation_expression(lagrange_order, n, dq, k) ==
    LET D == floor_delay(k, dq)
        B_1 == 1 + 2 * D - 2 * n
        B_2 == 2 * D - 1
        extra_widening ==
            IF first_regime(lagrange_order, B_1)
            THEN extra_absorbed(lagrange_order, n)
            ELSE IF lagrange_order <= B_2
                 THEN extra_delayed(lagrange_order, D)
                 ELSE extra_window(lagrange_order)
    IN <<int(extra_widening, 2), int(2 * n + extra_widening, 2)>>

feed_forward_extra(result) == result[1]

\* _, nans = gap_augmentation_expression(...)
feed_forward(result) == result[2]

cascade_widening_last_stage_only(lagrange_order, initial_nans, dq, delay_numbers) ==
    gap_augmentation_expression(lagrange_order, initial_nans, dq,
                                delay_numbers[Len(delay_numbers)])

\* _cascade_widening
RECURSIVE cascade_widening(_, _, _, _)
cascade_widening(lagrange_order, initial_nans, dq, delay_numbers) ==
    IF Len(delay_numbers) = 1
    THEN gap_augmentation_expression(lagrange_order, initial_nans, dq,
                                     delay_numbers[1])
    ELSE cascade_widening(
             lagrange_order,
             feed_forward(gap_augmentation_expression(
                 lagrange_order, initial_nans, dq, Head(delay_numbers))),
             dq, Tail(delay_numbers))

widening_gap_X1(lagrange_order, n, dq) ==
    cascade_widening(lagrange_order, n, dq, <<1, 1, 2>>)

widening_gap_X2(lagrange_order, n, dq) ==
    LET total_nans_X1 == widening_gap_X1(lagrange_order, n, dq)[2]
    IN gap_augmentation_expression(lagrange_order, total_nans_X1, dq, 4)

widening_gap_X1_unfactorized(lagrange_order, n, dq) ==
    cascade_widening(lagrange_order, n, dq, <<1, 3>>)

widening_gap_X2_unfactorized(lagrange_order, n, dq) ==
    cascade_widening(lagrange_order, n, dq, <<1, 7>>)

\* approx_total_nans_from_nan_blocks_eta: the sum over the blocks
RECURSIVE sum_total_nans(_, _, _, _)
sum_total_nans(nan_blocks, lagrange_order, dq, k) ==
    IF nan_blocks = <<>> THEN 0
    ELSE gap_augmentation_expression(
             lagrange_order, Len(Head(nan_blocks)), dq, k)[2]
         + sum_total_nans(Tail(nan_blocks), lagrange_order, dq, k)

approx_total_nans_from_nan_blocks_eta(a, dq, lagrange_order, k) ==
    sum_total_nans(nans_blocks_function(a), lagrange_order, dq, k)

----------------------------------------------------------------------------
(* The caller: arguments, calls and what they returned *)

DelayNumbers == {1, 2, 3, 4, 7}

Coords == (0 - 1)..(MaxCoord - 1)

Intervals == {iv \in Coords \X Coords : iv[1] <= iv[2]}

IntervalLists == UNION {[1..n -> Intervals] : n \in 0..MaxIntervals}

Masks == UNION {[0..(N - 1) -> {NaN, One}] : N \in 1..MaxLen}

\* the inputs of the documented examples
ScenarioIntervals == <<<<0, 2>>, <<3, 5>>, <<10, 12>>>>

ScenarioMask == [i \in 0..19 |-> IF i \in 9..11 THEN NaN ELSE One]

NothingReturned == [f \in {} |-> 0]

Called(f) == f \in DOMAIN returned

Return(f, value) == returned' = returned @@ (f :> value)

InitIntervals ==
    /\ intervals \in IntervalLists \cup {ScenarioIntervals}
    /\ object_w_nans = <<>>
    /\ delay = 0
    /\ order = 1
    /\ N_nans = 0
    /\ delay_number = 1
    /\ returned = NothingReturned

InitMask ==
    /\ intervals = <<>>
    /\ \/ /\ object_w_nans \in Masks
          /\ delay \in {DelayDen * d : d \in 0..MaxDelay} \cup {DelayDen + 1}
          /\ order \in 1..MaxOrder
       \/ /\ object_w_nans = ScenarioMask
          /\ delay = 5 * DelayDen
          /\ order = 5
    /\ N_nans = 0
    /\ delay_number = 1
    /\ returned = NothingReturned

InitWidening ==
    /\ intervals = <<>>
    /\ object_w_nans = <<>>
    /\ \/ /\ order \in 1..MaxOrder
          /\ N_nans \in 0..MaxNans
          /\ delay \in 0..(DelayDen * MaxDelay)
          /\ delay_number \in DelayNumbers
       \/ /\ order = 5
          /\ N_nans = 3
          /\ delay = 10 * DelayDen
          /\ delay_number = 1
    /\ returned = NothingReturned

CallMergeIntervals ==
    /\ ~Called("merge_intervals")
    /\ LET r == merge_intervals(intervals)
       IN /\ intervals' = r.intervals
          /\ Return("merge_intervals", r.ret)
    /\ UNCHANGED <<object_w_nans, delay, order, N_nans, delay_number>>

\* compute_nan_indices_delay takes a whole number of samples
CallComputeNanIndicesDelay ==
    /\ ~Called("compute_nan_indices_delay")
    /\ delay % DelayDen = 0
    /\ LET r == compute_nan_indices_delay(object_w_nans, delay \div DelayDen,
                                          order)
       IN /\ object_w_nans' = r.object_w_nans
          /\ Return("compute_nan_indices_delay", [exc |-> r.exc, ret |-> r.ret])
    /\ UNCHANGED <<intervals, delay, order, N_nans, delay_number>>

CallMaskEta ==
    /\ ~Called("mask_eta")
    /\ LET r == mask_eta(object_w_nans, delay, order)
       IN /\ object_w_nans' = r.object_w_nans
          /\ Return("mask_eta", [exc |-> r.exc, ret |-> r.ret])
    /\ UNCHANGED <<intervals, delay, order, N_nans, delay_number>>

CallMaskTDIX ==
    /\ ~Called("mask_TDI_X")
    /\ \E generation \in {1, 2} :
          LET r == mask_TDI_X(object_w_nans, delay, order, generation)
          IN /\ object_w_nans' = r.object_w_nans
             /\ Return("mask_TDI_X", [exc |-> r.exc, ret |-> r.ret,
                                      generation |-> generation])
    /\ UNCHANGED <<intervals, delay, order, N_nans, delay_number>>

CallApproxTotalNansEta ==
    /\ ~Called("approx_total_nans_from_nan_blocks_eta")
    /\ Return("approx_total_nans_from_nan_blocks_eta",
              approx_total_nans_from_nan_blocks_eta(
                  object_w_nans, delay, order, delay_number))
    /\ UNCHANGED <<intervals, object_w_nans, delay, order, N_nans,
                   delay_number>>

CallGapAugmentationExpression ==
    /\ ~Called("gap_augmentation_expression")
    /\ Return("gap_augmentation_expression",
              gap_augmentation_expression(order, N_nans, delay, delay_number))
    /\ UNCHANGED <<intervals, object_w_nans, delay, order, N_nans,
                   delay_number>>

CallWideningGapX1 ==
    /\ ~Called("widening_gap_X1")
    /\ Return("widening_gap_X1", widening_gap_X1(order, N_nans, delay))
    /\ UNCHANGED <<intervals, object_w_nans, delay, order, N_nans,
                   delay_number>>

CallWideningGapX2 ==
    /\ ~Called("widening_gap_X2")
    /\ Return("widening_gap_X2", widening_gap_X2(order, N_nans, delay))
    /\ UNCHANGED <<intervals, object_w_nans, delay, order, N_nans,
                   delay_number>>

CallWideningGapX1Unfactorized ==
    /\ ~Called("widening_gap_X1_unfactorized")
    /\ Return("widening_gap_X1_unfactorized",
              widening_gap_X1_unfactorized(order, N_nans, delay))
    /\ UNCHANGED <<intervals, object_w_nans, delay, order, N_nans,
                   delay_number>>

CallWideningGapX2Unfactorized ==
    /\ ~Called("widening_gap_X2_unfactorized")
    /\ Return("widening_gap_X2_unfactorized",
              widening_gap_X2_unfactorized(order, N_nans, delay))
    /\ UNCHANGED <<intervals, object_w_nans, delay, order, N_nans,
                   delay_number>>

NextIntervals == CallMergeIntervals

NextMask ==
    \/ CallComputeNanIndicesDelay
    \/ CallMaskEta
    \/ CallMaskTDIX
    \/ CallApproxTotalNansEta

NextWidening ==
    \/ CallGapAugmentationExpression
    \/ CallWideningGapX1
    \/ CallWideningGapX2
    \/ CallWideningGapX1Unfactorized
    \/ CallWideningGapX2Unfactorized

SpecIntervals == InitIntervals /\ [][NextIntervals]_vars

SpecMask == InitMask /\ [][NextMask]_vars

SpecWidening == InitWidening /\ [][NextWidening]_vars

----------------------------------------------------------------------------
(* Vocabulary of the properties *)

NanSet(a) == {i \in DOMAIN a : a[i] = NaN}

IsNan(a, i) == i \in DOMAIN a /\ a[i] = NaN

\* [f, l] is a maximal run of NaN
IsBlock(a, f, l) ==
    /\ f <= l
    /\ \A i \in f..l : IsNan(a, i)
    /\ ~IsNan(a, f - 1)
    /\ ~IsNan(a, l + 1)

BlocksOf(a) == {b \in (DOMAIN a) \X (DOMAIN a) : IsBlock(a, b[1], b[2])}

Covered(ivs) == UNION {ivs[i][1]..ivs[i][2] : i \in 1..Len(ivs)}

HalfSupport == (order + 1) \div 2

WholeDelay == delay \div DelayDen

----------------------------------------------------------------------------
(* C5: merge_intervals returns a list sorted by start whose intervals are
   pairwise disjoint and non-adjacent (each start > previous end + 1), that
   covers exactly the integers the input intervals cover, and that
   merge_intervals maps to itself; the empty list gives the empty list and
   [(0,2),(3,5),(10,12)] gives [(0,5),(10,12)]. *)
C5_MergeCorrect ==
    [][CallMergeIntervals =>
        LET out == returned'["merge_intervals"]
        IN /\ \A i \in 1..Len(out) : out[i][1] <= out[i][2]
           /\ \A i \in 2..Len(out) :
                 /\ out[i - 1][1] < out[i][1]
                 /\ out[i][1] > out[i - 1][2] + 1
           /\ Covered(out) = Covered(intervals)
           /\ merge_intervals(out).ret = out
           /\ (intervals = <<>> => out = <<>>)
           /\ (intervals = ScenarioIntervals
                 => out = <<<<0, 5>>, <<10, 12>>>>)]_vars

\* merge_intervals has returned after merging some of three intervals and
\* keeping others apart
C5_Witness ==
    /\ Called("merge_intervals")
    /\ Len(intervals) = 3
    /\ Len(returned["merge_intervals"]) = 2

(* C9: no operation mutates its inputs: merge_intervals leaves the caller's
   list as it was, in the same order, and compute_nan_indices_delay leaves
   the caller's array as it was. *)
C9_NoInputMutation ==
    [][/\ CallMergeIntervals => intervals' = intervals
       /\ CallComputeNanIndicesDelay => object_w_nans' = object_w_nans]_vars

----------------------------------------------------------------------------
(* The indices the NaN blocks of the caller's array contaminate: every block
   [f, l] gives its direct range and a delayed range that starts at
   f + d - p + 1 and ends at l + d + p - shortfall *)
ContaminatedBy(a, d, p, shortfall) ==
    {i \in DOMAIN a :
        \E b \in BlocksOf(a) :
            \/ i \in b[1]..b[2]
            \/ i \in (b[1] + d - p + 1)..(b[2] + d + p - shortfall)}

(* C1 as stated: for a mask with a NaN block, an integer delay d >= 0 and an
   odd order L, p = floor((L+1)/2), the NaN indices of
   compute_nan_indices_delay are exactly the union of the direct ranges
   [f, l] and the delayed ranges [f + d - p + 1, l + d + p - 1] within
   [0, N-1], 1.0 elsewhere; the length-20 mask with NaN at 9..11, d = 5,
   L = 5 gives NaN at exactly 9..18. *)
C1_DelayedRangeAsStated ==
    (Called("compute_nan_indices_delay") /\ NanSet(object_w_nans) # {}
        /\ order % 2 = 1) =>
        LET r == returned["compute_nan_indices_delay"]
        IN /\ r.exc = "none"
           /\ DOMAIN r.ret = DOMAIN object_w_nans
           /\ NanSet(r.ret) =
                  ContaminatedBy(object_w_nans, WholeDelay, HalfSupport, 1)
           /\ \A i \in DOMAIN r.ret \ NanSet(r.ret) : r.ret[i] = One
           /\ (object_w_nans = ScenarioMask => NanSet(r.ret) = 9..18)

(* C1 amended: the delayed range of a block [f, l] is
   [f + d - p + 1, l + d + p], one index longer than stated; the NaN indices
   of the result are exactly the union of the direct and these delayed
   ranges within [0, N-1], 1.0 elsewhere; the length-20 mask with NaN at
   9..11, d = 5, L = 5 gives NaN at exactly 9..19. *)
C1_DelayedRange ==
    (Called("compute_nan_indices_delay") /\ NanSet(object_w_nans) # {}
        /\ order % 2 = 1) =>
        LET r == returned["compute_nan_indices_delay"]
        IN /\ r.exc = "none"
           /\ DOMAIN r.ret = DOMAIN object_w_nans
           /\ NanSet(r.ret) =
                  ContaminatedBy(object_w_nans, WholeDelay, HalfSupport, 0)
           /\ \A i \in DOMAIN r.ret \ NanSet(r.ret) : r.ret[i] = One
           /\ (object_w_nans = ScenarioMask => NanSet(r.ret) = 9..19)

\* compute_nan_indices_delay has returned for an odd order and a mask with
\* two blocks, the last index of a delayed range lying inside the series
\* and outside every block
C1_Witness ==
    /\ Called("compute_nan_indices_delay")
    /\ order % 2 = 1
    /\ Cardinality(BlocksOf(object_w_nans)) = 2
    /\ \E b \in BlocksOf(object_w_nans) :
          /\ b[2] + WholeDelay + HalfSupport \in DOMAIN object_w_nans
          /\ ~IsNan(object_w_nans, b[2] + WholeDelay + HalfSupport)

(* C3: for a mask without any NaN, compute_nan_indices_delay, mask_eta and
   mask_TDI_X do not fail and return the identity mask: 1.0 at every index
   of an array of the same length. *)
C3_NoNanIdentity ==
    NanSet(object_w_nans) = {} =>
        \A f \in {"compute_nan_indices_delay", "mask_eta", "mask_TDI_X"} :
            Called(f) =>
                /\ returned[f].exc = "none"
                /\ returned[f].ret = np_ones_like(object_w_nans)

(* C6: for a mask with a NaN block, a delay d >= 0 and an order L >= 1, the
   result of compute_nan_indices_delay has the length of the input, every
   NaN index of the input is NaN in the result, and every NaN index of the
   result lies itself in a direct or delayed range: a computed index below
   0 or at/above the length marks nothing, in particular not the index it
   would wrap around to. *)
C6_Conservative ==
    (Called("compute_nan_indices_delay") /\ NanSet(object_w_nans) # {}) =>
        LET r == returned["compute_nan_indices_delay"]
        IN /\ r.exc = "none"
           /\ DOMAIN r.ret = DOMAIN object_w_nans
           /\ NanSet(object_w_nans) \subseteq NanSet(r.ret)
           /\ \A i \in NanSet(r.ret) :
                 \E j \in NanSet(object_w_nans) :
                     \/ i = j
                     \/ /\ j + WholeDelay - HalfSupport + 1 <= i
                        /\ i <= j + WholeDelay + HalfSupport

\* compute_nan_indices_delay has returned where a delayed range starts below
\* index 0 and ends above the last index, and the last index stayed 1.0
C6_Witness ==
    /\ Called("compute_nan_indices_delay")
    /\ \E j \in NanSet(object_w_nans) :
          j + WholeDelay - HalfSupport + 1 < 0
    /\ returned["compute_nan_indices_delay"].ret[len(object_w_nans) - 1] = One

----------------------------------------------------------------------------
(* A single NaN block of n samples, an odd order, a whole delay, and the
   block far enough from both ends that no computed index is clipped *)
IsolatedGap(f, l) ==
    /\ BlocksOf(object_w_nans) = {<<f, l>>}
    /\ order % 2 = 1
    /\ delay % DelayDen = 0
    /\ f + WholeDelay - HalfSupport + 1 >= 0
    /\ l + WholeDelay + HalfSupport <= len(object_w_nans) - 1

BothCountsReturned ==
    Called("mask_eta") /\ Called("approx_total_nans_from_nan_blocks_eta")

CountsAgree(n) ==
    LET count == Cardinality(NanSet(returned["mask_eta"].ret))
    IN /\ returned["mask_eta"].exc = "none"
       /\ count = returned["approx_total_nans_from_nan_blocks_eta"]
       /\ count = gap_augmentation_expression(order, n, delay, 1)[2]

(* C10 as stated: for a mask with exactly one NaN block of n >= 1 samples
   that is not clipped, every odd order L >= 1 and every integer delay
   d >= 0, the number of NaN samples of mask_eta(mask, d, L) equals the
   total of gap_augmentation_expression(L, n, d), which is what
   approx_total_nans_from_nan_blocks_eta returns for that mask. *)
C10_CountsAgreeAsStated ==
    BothCountsReturned =>
        \A f, l \in DOMAIN object_w_nans :
            IsolatedGap(f, l) => CountsAgree(l - f + 1)

(* C10 amended: the two agree for every odd order L >= 3, and for L = 1 when
   d <= n; for L = 1 and d > n the mask holds 2n + 1 NaN samples while the
   widening law returns n + 1 + d. *)
C10_CountsAgree ==
    BothCountsReturned =>
        \A f, l \in DOMAIN object_w_nans :
            IsolatedGap(f, l) =>
                LET n == l - f + 1
                IN /\ (order >= 3 \/ WholeDelay <= n) => CountsAgree(n)
                   /\ (order = 1 /\ WholeDelay > n) =>
                         /\ Cardinality(NanSet(returned["mask_eta"].ret))
                                = 2 * n + 1
                         /\ returned["approx_total_nans_from_nan_blocks_eta"]
                                = n + 1 + WholeDelay

\* both counts were returned for an isolated gap whose delayed range is
\* apart from the gap itself, at an order of 3 or more
C10_Witness ==
    /\ BothCountsReturned
    /\ order >= 3
    /\ \E f, l \in DOMAIN object_w_nans :
          /\ IsolatedGap(f, l)
          /\ f + WholeDelay - HalfSupport + 1 > l

----------------------------------------------------------------------------
(* The quantities of the widening law for the caller's arguments *)

DFloor == (delay_number * delay) \div DelayDen

B1 == 1 + 2 * DFloor - 2 * N_nans

B2 == 2 * DFloor - 1

\* the piecewise law: L + n, else trunc((L+1)/2 + D), else L
PiecewiseExtra ==
    IF 1 < order /\ order <= B1 THEN order + N_nans
    ELSE IF order <= B2 THEN (order + 1 + 2 * DFloor) \div 2
    ELSE order

IsScenarioA == order = 5 /\ N_nans = 3 /\ delay = 10 * DelayDen /\ delay_number = 1

(* C2 as stated: gap_augmentation_expression(L, n, d, k) returns
   (extra, n + extra) with extra = L + n if 1 < L <= B1, otherwise
   trunc((L+1)/2 + D) if L <= B2, otherwise L, and extra = L whenever L <= 1
   or L > B2; (L=5, n=3, d=10) returns (8, 11). *)
C2_PiecewiseAsStated ==
    Called("gap_augmentation_expression") =>
        LET r == returned["gap_augmentation_expression"]
        IN /\ r = <<PiecewiseExtra, N_nans + PiecewiseExtra>>
           /\ (order <= 1 \/ order > B2) => r[1] = order
           /\ IsScenarioA => r = <<8, 11>>

(* C2 amended: the piecewise law and the example hold as stated; extra = L
   whenever L > B2, but L <= 1 alone does not select the third case: for
   L <= 1 with L <= B2 (L = 1, D >= 1) the second case applies and
   extra = trunc((L+1)/2 + D) = 1 + D. *)
C2_Piecewise ==
    Called("gap_augmentation_expression") =>
        LET r == returned["gap_augmentation_expression"]
        IN /\ r = <<PiecewiseExtra, N_nans + PiecewiseExtra>>
           /\ order > B2 => r[1] = order
           /\ (order <= 1 /\ order <= B2) => r[1] = 1 + DFloor
           /\ IsScenarioA => r = <<8, 11>>

\* the law has returned for order 1 and a delay of at least one sample
C2_Witness ==
    /\ Called("gap_augmentation_expression")
    /\ order = 1
    /\ DFloor >= 1
    /\ N_nans # DFloor

Cascades ==
    {"widening_gap_X1", "widening_gap_X2",
     "widening_gap_X1_unfactorized", "widening_gap_X2_unfactorized"}

(* C7 as stated: gap_augmentation_expression returns extra >= 0 and
   total >= n with total = n + extra, and the same holds for the final
   (extra, total) of every cascade relative to the initial n. *)
C7_MonotoneAsStated ==
    \A f \in Cascades \cup {"gap_augmentation_expression"} :
        Called(f) =>
            /\ returned[f][1] >= 0
            /\ returned[f][2] >= N_nans
            /\ returned[f][2] = N_nans + returned[f][1]

(* C7 amended: gap_augmentation_expression returns extra >= 0 and
   total = n + extra >= n; the final (extra, total) of every cascade has
   extra >= 0 and total > initial n + extra, so total >= initial n, its
   total being the n fed to its last stage plus extra. *)
C7_Monotone ==
    /\ Called("gap_augmentation_expression") =>
          LET r == returned["gap_augmentation_expression"]
          IN r[1] >= 0 /\ r[2] >= N_nans /\ r[2] = N_nans + r[1]
    /\ \A f \in Cascades :
          Called(f) =>
              /\ returned[f][1] >= 0
              /\ returned[f][2] >= N_nans
              /\ returned[f][2] > N_nans + returned[f][1]

\* the law and a cascade have both returned for a gap of several samples
C7_Witness ==
    /\ Called("gap_augmentation_expression")
    /\ Called("widening_gap_X2")
    /\ N_nans >= 2
    /\ returned["widening_gap_X2"][2] > N_nans

----------------------------------------------------------------------------
\* the total of one stage of the widening law for a gap of m samples
StageTotal(m, k) == gap_augmentation_expression(order, m, delay, k)[2]

\* every cascade hands only the previous stage's total to the next stage
FeedsTotalsForward ==
    /\ Called("widening_gap_X1") =>
          returned["widening_gap_X1"] =
              gap_augmentation_expression(order,
                  StageTotal(StageTotal(N_nans, 1), 1), delay, 2)
    /\ Called("widening_gap_X2") =>
          returned["widening_gap_X2"] =
              gap_augmentation_expression(order,
                  StageTotal(StageTotal(StageTotal(N_nans, 1), 1), 2),
                  delay, 4)
    /\ Called("widening_gap_X1_unfactorized") =>
          returned["widening_gap_X1_unfactorized"] =
              gap_augmentation_expression(order, StageTotal(N_nans, 1),
                                          delay, 3)
    /\ Called("widening_gap_X2_unfactorized") =>
          returned["widening_gap_X2_unfactorized"] =
              gap_augmentation_expression(order, StageTotal(N_nans, 1),
                                          delay, 7)

BothX1Returned ==
    Called("widening_gap_X1") /\ Called("widening_gap_X1_unfactorized")

BothX2Returned ==
    Called("widening_gap_X2") /\ Called("widening_gap_X2_unfactorized")

(* C4 as stated: widening_gap_X1 and widening_gap_X1_unfactorized return the
   same total, and so do widening_gap_X2 and widening_gap_X2_unfactorized;
   each cascade feeds only the previous stage's total forward. *)
C4_SameTotalAsStated ==
    /\ FeedsTotalsForward
    /\ BothX1Returned =>
          returned["widening_gap_X1"][2]
              = returned["widening_gap_X1_unfactorized"][2]
    /\ BothX2Returned =>
          returned["widening_gap_X2"][2]
              = returned["widening_gap_X2_unfactorized"][2]

(* C4 amended: each cascade feeds only the previous stage's total forward,
   but the factorized and the unfactorized cascade do not in general return
   the same total: the factorized total is never the smaller one, and it is
   strictly the larger one for every order L >= 3, for X1 and for X2. *)
C4_FactorizedWidensMore ==
    /\ FeedsTotalsForward
    /\ BothX1Returned =>
          /\ returned["widening_gap_X1"][2]
                 >= returned["widening_gap_X1_unfactorized"][2]
          /\ order >= 3 =>
                 returned["widening_gap_X1"][2]
                     > returned["widening_gap_X1_unfactorized"][2]
    /\ BothX2Returned =>
          /\ returned["widening_gap_X2"][2]
                 >= returned["widening_gap_X2_unfactorized"][2]
          /\ order >= 3 =>
                 returned["widening_gap_X2"][2]
                     > returned["widening_gap_X2_unfactorized"][2]

\* all four cascades have returned for a gap and a delay of some samples
C4_Witness ==
    /\ BothX1Returned
    /\ BothX2Returned
    /\ N_nans >= 1
    /\ delay >= DelayDen
    /\ order >= 3

(* C8 as stated: when L = B1 the first value L + n equals the second value
   (L+1)/2 + D, and when L = B2 the second value (L+1)/2 + D equals the
   third value L, after truncation. *)
C8_NoJumpAsStated ==
    Called("gap_augmentation_expression") =>
        /\ order = B1 =>
              int(extra_absorbed(order, N_nans), 2)
                  = int(extra_delayed(order, DFloor), 2)
        /\ order = B2 =>
              int(extra_delayed(order, DFloor), 2)
                  = int(extra_window(order), 2)

(* C8 amended: when L = B1 the first value L + n equals the second value
   (L+1)/2 + D, which is what the call returns; when L = B2 the second value
   is 2D = L + 1, one more than the third value L; the second and the third
   value are equal at L = B2 + 2 = 2D + 1, the first odd order past B2. *)
C8_RegimeBoundaries ==
    Called("gap_augmentation_expression") =>
        /\ order = B1 =>
              /\ int(extra_absorbed(order, N_nans), 2)
                     = int(extra_delayed(order, DFloor), 2)
              /\ returned["gap_augmentation_expression"][1]
                     = int(extra_delayed(order, DFloor), 2)
        /\ order = B2 =>
              int(extra_delayed(order, DFloor), 2)
                  = int(extra_window(order), 2) + 1
        /\ order = B2 + 2 =>
              /\ int(extra_delayed(order, DFloor), 2)
                     = int(extra_window(order), 2)
              /\ returned["gap_augmentation_expression"][1]
                     = int(extra_delayed(order, DFloor), 2)

\* the law has returned for an order on both boundaries at once
C8_Witness ==
    /\ Called("gap_augmentation_expression")
    /\ order = B1
    /\ order = B2
    /\ order > 1

====
